---- MODULE Spec2Model ----
(***************************************************************************)
(* Model of flattenxsd/xsd_import2include.py: the import-to-include        *)
(* pipeline (reference extraction, dependency resolution, renaming and     *)
(* copying, assembly of the closure document, rewriting of the consumer).  *)
(*                                                                         *)
(* A document is the sequence of its element nodes in document order       *)
(* (pre-order), the root left out: node i has parent 0 (the root) or an    *)
(* earlier node.  A node carries its tag, an optional name attribute and   *)
(* at most one further attribute (key ak, value av).  An attribute value   *)
(* is the pair (p, l) of the text before its first colon and the text      *)
(* after it; p = "" when the value holds no colon.                         *)
(***************************************************************************)
EXTENDS Integers, Sequences, FiniteSets, TLC

VARIABLES
    main,         \* the consumer document (main.xsd), as parsed
    sub,          \* the target document (sub.xsd), as parsed
    subRootPfx,   \* the prefix the target document binds to the schema namespace
    subRootAttrib, \* sub_root.attrib: the attributes of the target's root
    excluded,     \* excluded_items
    pc,           \* the position of the run in the pipeline
    references,   \* create_sub_include: the initial reference set
    refsLeft,     \* resolve_dependencies: initial references not yet iterated
    stack,        \* resolve_reference: the activation frames, innermost last
    processed,    \* resolve_dependencies: the processed set
    definitions,  \* resolve_dependencies: the five ordered dictionaries
    warned,       \* references reported "not found in schema"
    runs,         \* how often the lookup-and-scan body ran, per (ref, ref_type)
    renamed,      \* rename_and_copy_definitions: renamed_definitions
    closure,      \* the document written to sub_include_file
    newMain,      \* the nodes of the document written to output_main_xsd
    newKids,      \* and, per parent, the order of its children
    mainPath,     \* main_xsd_file, the path the run is given
    fsys,         \* the files on disk: path -> content
    prev,         \* the run before this one: its number and its renamed_definitions
    mode,         \* the script that is run
    fstack,       \* resolve_includes: the activation frames, innermost last
    outcome       \* the exception that ended the run and its exit status, as text

vars == << main, sub, subRootPfx, subRootAttrib, excluded, pc, references, refsLeft, stack,
           processed, definitions, warned, runs, renamed, closure, newMain,
           newKids, mainPath, fsys, prev, mode, fstack, outcome >>

\* the documents in memory and what is computed from them
docVars == << main, sub, subRootPfx, subRootAttrib, excluded, references, refsLeft, stack,
              processed, definitions, warned, runs, renamed, closure, newMain,
              newKids >>
\* what the steps on documents in memory never touch
auxVars == << mainPath, fsys, prev, mode, fstack, outcome >>

----------------------------------------------------------------------------
(* Bounds of the model *)

\* Global definitions of a target document.
MaxDefs == 2
\* Nodes of a consumer document.
MaxMainNodes == 2

----------------------------------------------------------------------------
(* Values *)

None == "none"
Names == {"A", "B"}
\* The alias the consumer binds to the target namespace, and the prefix
\* derived from it.
NsAlias == "s"
Prefix == NsAlias \o "_"

Val(p, l) == [p |-> p, l |-> l]
NoVal == Val("", "")
Node(tag, parent, name, ak, av) ==
    [tag |-> tag, parent |-> parent, name |-> name, ak |-> ak, av |-> av]

Kinds == {"element", "simpleType", "complexType", "attribute", "group"}
Buckets == <<"elements", "simpleTypes", "complexTypes", "attributes", "groups">>
BucketOf(kind) == kind \o "s"

\* str.strip() of a reference: the one padded spelling the model admits.
Strip(s) == IF s = "A " THEN "A" ELSE s

\* ":" in value
HasColon(v) == v.p # ""
\* value.startswith(prefix[:-1] + ":")
StartsWithAlias(v) == v.p = NsAlias
\* The attribute's value, or NoVal when the node has no such attribute
\* (Python None; both are falsy).
Get(n, key) == IF n.ak = key THEN n.av ELSE NoVal
Truthy(v) == v # NoVal

----------------------------------------------------------------------------
(* Trees *)

Ids(doc) == 1..Len(doc)

RECURSIVE IsDesc(_, _, _)
\* node i lies strictly below node d
IsDesc(doc, i, d) ==
    /\ i > d
    /\ doc[i].parent # 0
    /\ \/ doc[i].parent = d
       \/ IsDesc(doc, doc[i].parent, d)

Desc(doc, d) == {i \in Ids(doc) : IsDesc(doc, i, d)}

Min(S) == CHOOSE x \in S : \A y \in S : x <= y

RECURSIVE Ascending(_)
\* a set of node ids in document order
Ascending(S) == IF S = {} THEN <<>> ELSE <<Min(S)>> \o Ascending(S \ {Min(S)})

\* Element.find: the first match in document order, 0 for None
First(S) == IF S = {} THEN 0 ELSE Min(S)

----------------------------------------------------------------------------
(* Ordered dictionaries (Python dict: insertion order, assignment to an     *)
(* existing key keeps its place) as sequences of [k, v]                     *)

HasKey(d, k) == \E i \in 1..Len(d) : d[i].k = k
DictGet(d, k) == d[CHOOSE i \in 1..Len(d) : d[i].k = k].v
DictPut(d, k, v) ==
    IF HasKey(d, k)
    THEN [i \in 1..Len(d) |-> IF d[i].k = k THEN [k |-> k, v |-> v] ELSE d[i]]
    ELSE Append(d, [k |-> k, v |-> v])

EmptyDefinitions ==
    [b \in {"elements", "simpleTypes", "complexTypes", "attributes", "groups"}
        |-> <<>>]

----------------------------------------------------------------------------
(* create_sub_include: the initial reference set *)

\* nodes matched by findall(".//*[@key]")
WithAttr(doc, key) == {i \in Ids(doc) : doc[i].ak = key}

\* ref.split(":")[1]
LocalName(v) == v.l

ExtractTypeRefs(doc) ==
    UNION { {<<LocalName(doc[i].av), "simpleType">>,
             <<LocalName(doc[i].av), "complexType">>} :
            i \in {j \in WithAttr(doc, "type") :
                     Truthy(doc[j].av) /\ StartsWithAlias(doc[j].av)} }

ExtractElementRefs(doc) ==
    { <<LocalName(doc[i].av), "element">> :
        i \in {j \in WithAttr(doc, "ref") :
                 Truthy(doc[j].av) /\ StartsWithAlias(doc[j].av)} }

ExtractAttributeRefs(doc) ==
    { <<LocalName(doc[i].av), "attribute">> :
        i \in {j \in WithAttr(doc, "ref") :
                 /\ doc[j].tag = "attribute"
                 /\ Truthy(doc[j].av) /\ StartsWithAlias(doc[j].av)} }

ExtractReferences(doc) ==
    ExtractTypeRefs(doc) \cup ExtractElementRefs(doc) \cup ExtractAttributeRefs(doc)

----------------------------------------------------------------------------
(* resolve_dependencies *)

Named(doc, tag, name) ==
    {i \in Ids(doc) : doc[i].tag = tag /\ doc[i].name = name}

\* root.find(...) of resolve_reference: the node found, 0 for None
LookupAnywhere(doc, nref, ref_type) ==
    IF ref_type \in Kinds THEN First(Named(doc, ref_type, nref)) ELSE 0
LookupDefinition(doc, nref, ref_type) ==
    CASE ref_type = "simpleType"  -> First(Named(doc, "simpleType", nref))
      [] ref_type = "complexType" -> First(Named(doc, "complexType", nref))
      [] ref_type = "element" ->
            LET global == {i \in Named(doc, "element", nref) : doc[i].parent = 0}
            IN  IF global # {} THEN First(global)
                ELSE First(Named(doc, "element", nref))
      [] ref_type = "attribute"   -> First(Named(doc, "attribute", nref))
      [] ref_type = "group"       -> First(Named(doc, "group", nref))
      [] OTHER -> 0

DepAttrs == <<"type", "base", "ref", "group">>

\* the resolve_reference calls one node makes for one dependency attribute
CallsAt(n, dep_attr) ==
    LET dep_ref == Get(n, dep_attr) IN
    IF ~Truthy(dep_ref) \/ HasColon(dep_ref) THEN <<>>
    ELSE CASE dep_attr \in {"type", "base"} ->
                << <<dep_ref.l, "simpleType">>, <<dep_ref.l, "complexType">> >>
           [] dep_attr = "ref" ->
                IF n.tag = "element" THEN << <<dep_ref.l, "element">> >>
                ELSE IF n.tag = "attribute" THEN << <<dep_ref.l, "attribute">> >>
                ELSE <<>>
           [] dep_attr = "group" -> << <<dep_ref.l, "group">> >>
           [] OTHER -> <<>>

\* [definition] + definition.findall(".//*[@dep_attr]")
ScanNodes(doc, d, dep_attr) ==
    <<d>> \o Ascending({i \in Desc(doc, d) : doc[i].ak = dep_attr})

RECURSIVE CallsOver(_, _, _)
CallsOver(doc, ids, dep_attr) ==
    IF ids = <<>> THEN <<>>
    ELSE CallsAt(doc[Head(ids)], dep_attr) \o CallsOver(doc, Tail(ids), dep_attr)

RECURSIVE CallsFor(_, _, _)
CallsFor(doc, d, attrs) ==
    IF attrs = <<>> THEN <<>>
    ELSE CallsOver(doc, ScanNodes(doc, d, Head(attrs)), Head(attrs))
            \o CallsFor(doc, d, Tail(attrs))

\* the recursive calls made for definition d, in the order they are made
DepCalls(doc, d) == CallsFor(doc, d, DepAttrs)

\* definition.find(".//xs:complexType"), else definition.find(".//xs:simpleType")
InlineType(doc, d) ==
    LET ct == First({i \in Desc(doc, d) : doc[i].tag = "complexType"})
    IN  IF ct # 0 THEN ct
        ELSE First({i \in Desc(doc, d) : doc[i].tag = "simpleType"})

\* Mutant of IsProcessed: the processed set consulted by name alone
IsProcessedByName(proc, p) == \E q \in proc : q[1] = p[1]

IsProcessed(proc, p) == p \in proc
MarkProcessed(proc, p) == proc \cup {p}

\* definitions after the inline-type handling that ends the body of
\* resolve_reference(ref, ...) for definition d
WithInline(defs, doc, ref, d) ==
    LET inline_type == InlineType(doc, d) IN
    IF inline_type # 0 /\ doc[inline_type].name # None
    THEN LET b == IF doc[inline_type].tag = "complexType"
                  THEN "complexTypes" ELSE "simpleTypes"
         IN  [defs EXCEPT ![b] = DictPut(@, ref, inline_type)]
    ELSE defs

\* One call resolve_reference(ref, ref_type) up to its first recursive call
\* or its return; rest are the frames of its callers.
Enter(ref, ref_type, rest) ==
    LET normalized_ref == Strip(ref)
        p == <<normalized_ref, ref_type>>
        definition == LookupDefinition(sub, normalized_ref, ref_type)
    IN  IF IsProcessed(processed, p)
        THEN /\ stack' = rest
             /\ UNCHANGED <<processed, definitions, warned, runs>>
        ELSE /\ processed' = MarkProcessed(processed, p)
             /\ runs' = [runs EXCEPT ![p] = @ + 1]
             /\ IF definition # 0
                THEN /\ definitions' =
                        [definitions EXCEPT ![BucketOf(ref_type)] =
                            DictPut(@, normalized_ref, definition)]
                     /\ stack' = Append(rest,
                            [ref |-> ref, ref_type |-> ref_type,
                             def |-> definition,
                             todo |-> DepCalls(sub, definition)])
                     /\ UNCHANGED warned
                ELSE /\ warned' = warned \cup {p}
                     /\ stack' = rest
                     /\ UNCHANGED definitions

Top == stack[Len(stack)]
Callers == SubSeq(stack, 1, Len(stack) - 1)

\* for ref, ref_type in references: resolve_reference(ref, ref_type)
StartRef ==
    /\ pc = "resolve"
    /\ stack = <<>>
    /\ \E r \in refsLeft :
          /\ refsLeft' = refsLeft \ {r}
          /\ Enter(r[1], r[2], <<>>)
    /\ UNCHANGED <<main, sub, subRootPfx, subRootAttrib, excluded, pc, references, renamed,
                   closure, newMain>>
    /\ UNCHANGED <<newKids, auxVars>>

\* the next recursive call of the innermost activation
Call ==
    /\ pc = "resolve"
    /\ stack # <<>>
    /\ Top.todo # <<>>
    /\ LET c == Head(Top.todo)
           rest == Append(Callers, [Top EXCEPT !.todo = Tail(@)])
       IN  Enter(c[1], c[2], rest)
    /\ UNCHANGED <<main, sub, subRootPfx, subRootAttrib, excluded, pc, references, refsLeft,
                   renamed, closure, newMain>>
    /\ UNCHANGED <<newKids, auxVars>>

\* the innermost activation handles its inline type and returns
Return ==
    /\ pc = "resolve"
    /\ stack # <<>>
    /\ Top.todo = <<>>
    /\ definitions' = WithInline(definitions, sub, Top.ref, Top.def)
    /\ stack' = Callers
    /\ UNCHANGED <<main, sub, subRootPfx, subRootAttrib, excluded, pc, references, refsLeft,
                   processed, warned, runs, renamed, closure, newMain>>
    /\ UNCHANGED <<newKids, auxVars>>

\* return definitions
ResolveDone ==
    /\ pc = "resolve"
    /\ stack = <<>>
    /\ refsLeft = {}
    /\ pc' = "rename"
    /\ UNCHANGED <<main, sub, subRootPfx, subRootAttrib, excluded, references, refsLeft, stack,
                   processed, definitions, warned, runs, renamed, closure,
                   newMain>>
    /\ UNCHANGED <<newKids, auxVars>>

----------------------------------------------------------------------------
(* rename_and_copy_definitions *)

UsageAttrs == {"minOccurs", "maxOccurs", "nillable", "use"}
RefAttrs == {"type", "ref", "base"}

\* One step of the path: prefix:tag, or * for a node in the default namespace
QName(pfx, tag) == IF pfx = "" THEN "*" ELSE pfx \o ":" \o tag

RECURSIVE StepsTo(_, _, _)
StepsTo(doc, i, pfx) ==
    IF i = 0 THEN <<QName(pfx, "schema")>>
    ELSE Append(StepsTo(doc, doc[i].parent, pfx), QName(pfx, doc[i].tag))

\* definition.getroottree().getpath(definition), as its steps ("/"-joined)
GetPath(doc, d, pfx) == StepsTo(doc, d, pfx)

\* getpath(definition).startswith("/xs:schema/")
IsGlobal(doc, d, pfx) ==
    LET path == GetPath(doc, d, pfx)
    IN  Len(path) >= 2 /\ path[1] = "xs:schema"

\* Mutant of RenameRef: the exclusion list is not consulted
RenameRefAlways(v, excl) ==
    IF ~HasColon(v) THEN Val("", Prefix \o v.l) ELSE v

\* the value of a type, ref or base attribute after renaming
RenameRef(v, excl) ==
    IF ~HasColon(v) /\ v.l \notin excl THEN Val("", Prefix \o v.l) ELSE v

\* the copy of the top-level definition node d
CopyTop(doc, d, pfx, excl) ==
    LET n == doc[d]
        kept == n.ak \notin UsageAttrs
        name == IF n.name # None /\ IsGlobal(doc, d, pfx) /\ n.name \notin excl
                THEN Prefix \o n.name ELSE n.name
    IN  [src |-> d, parent |-> 0, tag |-> n.tag, name |-> name,
         ak |-> IF kept THEN n.ak ELSE None,
         av |-> IF ~kept THEN NoVal
                ELSE IF n.ak \in RefAttrs THEN RenameRef(n.av, excl) ELSE n.av]

\* Mutant of CopyChild: the name of a descendant is copied as it is
CopyChildKeepName(doc, d, i, excl) ==
    LET n == doc[i]
    IN  [src |-> i, parent |-> n.parent - d + 1, tag |-> n.tag,
         name |-> n.name,
         ak |-> n.ak,
         av |-> IF n.ak \in RefAttrs THEN RenameRef(n.av, excl) ELSE n.av]

\* recursive_rename: the copy of descendant i of definition d
CopyChild(doc, d, i, excl) ==
    LET n == doc[i]
    IN  [src |-> i, parent |-> n.parent - d + 1, tag |-> n.tag,
         name |-> IF n.name # None /\ n.name \notin excl
                  THEN Prefix \o n.name ELSE n.name,
         ak |-> n.ak,
         av |-> IF n.ak \in RefAttrs THEN RenameRef(n.av, excl) ELSE n.av]

\* definition_copy with the copies of all its descendants, in document order
CopyDefinition(doc, d, pfx, excl) ==
    LET below == Ascending(Desc(doc, d))
    IN  <<CopyTop(doc, d, pfx, excl)>>
            \o [j \in 1..Len(below) |-> CopyChild(doc, d, below[j], excl)]

RECURSIVE CopyBuckets(_, _, _, _, _)
CopyBuckets(defs, bs, doc, pfx, excl) ==
    IF bs = <<>> THEN <<>>
    ELSE LET dict == defs[Head(bs)]
         IN  [j \in 1..Len(dict) |-> CopyDefinition(doc, dict[j].v, pfx, excl)]
                \o CopyBuckets(defs, Tail(bs), doc, pfx, excl)

RenameAndCopy(defs, doc, pfx, excl) == CopyBuckets(defs, Buckets, doc, pfx, excl)

----------------------------------------------------------------------------
(* update_main_xsd: the reference attributes of the consumer *)

\* Mutant of UpdateNode: only the children of the root are rewritten
UpdateNodeTopLevel(n, excl) ==
    IF n.parent = 0 /\ n.ak \in {"ref", "type", "base"}
                    /\ Truthy(n.av) /\ StartsWithAlias(n.av)
    THEN [n EXCEPT !.av = IF n.ak = "ref" /\ n.av.l \in excl
                          THEN Val("", n.av.l)
                          ELSE Val("", Prefix \o n.av.l)]
    ELSE n

\* the node after the loops over .//*[@ref], .//*[@type], .//*[@base]
UpdateNode(n, excl) ==
    IF Truthy(n.av) /\ StartsWithAlias(n.av)
    THEN CASE n.ak = "ref" ->
                [n EXCEPT !.av = IF n.av.l \in excl
                                 THEN Val("", n.av.l)
                                 ELSE Val("", Prefix \o n.av.l)]
           [] n.ak = "type" -> [n EXCEPT !.av = Val("", Prefix \o n.av.l)]
           [] n.ak = "base" -> [n EXCEPT !.av = Val("", Prefix \o n.av.l)]
           [] OTHER -> n
    ELSE n

UpdateRefs(doc, excl) == [i \in Ids(doc) |-> UpdateNode(doc[i], excl)]

\* A node of a consumer document that may hold imports and comments: it has
\* a schemaLocation attribute (loc) besides; a comment has the tag "#comment"
\* and its text as the local part of av.
UNode(tag, parent, ak, av, loc) ==
    [tag |-> tag, parent |-> parent, name |-> None, ak |-> ak, av |-> av,
     loc |-> loc]
CommentNode(parent, text) == UNode("#comment", parent, "#text", Val("", text), None)

\* the path update_main_xsd is given as sub_include_file
SubIncludeFile == "sub_include.xsd"

\* Mutant of ImportToInclude: the namespace attribute is left on the node
ImportToIncludeKeepNs(n, sub_include_file) ==
    IF n.tag = "import" /\ n.parent = 0
    THEN [n EXCEPT !.tag = "include", !.loc = sub_include_file]
    ELSE n

\* root.findall("./xs:import"): the tag, the namespace, the schemaLocation
ImportToInclude(n, sub_include_file) ==
    IF n.tag = "import" /\ n.parent = 0
    THEN [n EXCEPT !.tag = "include",
                   !.ak = IF n.ak = "namespace" THEN None ELSE n.ak,
                   !.av = IF n.ak = "namespace" THEN NoVal ELSE n.av,
                   !.loc = sub_include_file]
    ELSE n

RewriteImports(doc, sub_include_file) ==
    [i \in Ids(doc) |-> ImportToInclude(doc[i], sub_include_file)]

IsComment(n) == n.tag = "#comment"
ElementIds(doc) == {i \in Ids(doc) : ~IsComment(doc[i])}
Max(S) == CHOOSE x \in S : \A y \in S : x >= y

\* the children of node p (0: the root), comments among them, in order
KidsOf(doc, p) == Ascending({i \in Ids(doc) : doc[i].parent = p})
CommentsIn(doc, ids) == SelectSeq(ids, LAMBDA i : IsComment(doc[i]))
ElementsIn(doc, ids) == SelectSeq(ids, LAMBDA i : ~IsComment(doc[i]))

\* for parent in root.iter(): the parents the loop reaches.  The iterator
\* holds the node that follows the one it returned; when the loop body has
\* removed that node (the first child of the parent, a comment), the
\* iterator returns the removed node and finds nothing after it.
IterParents(doc) ==
    LET order == <<0>> \o Ascending(ElementIds(doc))
        stops == {k \in 1..Len(order) :
                    LET kids == KidsOf(doc, order[k])
                    IN  kids # <<>> /\ IsComment(doc[kids[1]])}
    IN  IF stops = {} THEN order ELSE SubSeq(order, 1, Min(stops))

\* child.getprevious() once the comments before child are removed: the
\* nearest sibling before it that is no comment, 0 for None
PreviousOf(doc, c) ==
    LET before == {i \in ElementIds(doc) :
                     doc[i].parent = doc[c].parent /\ i < c}
    IN  IF before = {} THEN 0 ELSE Max(before)

RECURSIVE CollectComments(_, _)
\* comments, as (parent, previous, text); id is the comment removed
CollectComments(doc, parents) ==
    IF parents = <<>> THEN <<>>
    ELSE LET cs == CommentsIn(doc, KidsOf(doc, Head(parents)))
         IN  [j \in 1..Len(cs) |->
                 [parent |-> Head(parents), previous |-> PreviousOf(doc, cs[j]),
                  text |-> doc[cs[j]].av.l, id |-> cs[j]]]
                \o CollectComments(doc, Tail(parents))

\* the children lists after parent.remove(child) of every collected comment
Detached(doc) ==
    LET reached == {IterParents(doc)[k] : k \in 1..Len(IterParents(doc))}
    IN  [p \in {0} \cup ElementIds(doc) |->
            IF p \in reached THEN ElementsIn(doc, KidsOf(doc, p))
            ELSE KidsOf(doc, p)]

\* parent.index(previous), counted from 1
IndexOf(kids, x) == CHOOSE k \in 1..Len(kids) : kids[k] = x
\* parent.insert(k, x)
InsertAt(kids, k, x) ==
    SubSeq(kids, 1, k) \o <<x>> \o SubSeq(kids, k + 1, Len(kids))

RECURSIVE Reattach(_, _, _)
\* the children lists after the comments are attached again
Reattach(kids, comments, attached_comments) ==
    IF comments = <<>> THEN kids
    ELSE LET c == Head(comments)
         IN  IF c.text \in attached_comments
             THEN Reattach(kids, Tail(comments), attached_comments)
             ELSE Reattach(
                    [kids EXCEPT ![c.parent] =
                        IF c.previous # 0
                        THEN InsertAt(@, IndexOf(@, c.previous), c.id)
                        ELSE InsertAt(@, 0, c.id)],
                    Tail(comments), attached_comments \cup {c.text})

\* the children lists of the document update_main_xsd writes
UpdateComments(doc) ==
    Reattach(Detached(doc), CollectComments(doc, IterParents(doc)), {})

----------------------------------------------------------------------------
(* The pipeline: xsd_import2include *)

\* create_sub_include, lines 248-271: collect the references, call the resolver
Extract ==
    /\ pc = "extract"
    /\ references' = ExtractReferences(main)
    /\ refsLeft' = ExtractReferences(main)
    /\ pc' = "resolve"
    /\ UNCHANGED <<main, sub, subRootPfx, subRootAttrib, excluded, stack, processed,
                   definitions, warned, runs, renamed, closure, newMain>>
    /\ UNCHANGED <<newKids, auxVars>>

RenameInPlace ==
    /\ pc = "rename"
    /\ renamed' = RenameAndCopy(definitions, sub, subRootPfx, excluded)
    /\ sub' = [i \in DOMAIN sub |->
                  IF sub[i].parent = 0 /\ sub[i].name # None
                  THEN [sub[i] EXCEPT !.name = Prefix \o @] ELSE sub[i]]
    /\ pc' = "assemble"
    /\ UNCHANGED <<main, subRootPfx, subRootAttrib, excluded, references, refsLeft, stack,
                   processed, definitions, warned, runs, closure, newMain>>
    /\ UNCHANGED <<newKids, auxVars>>
Rename ==
    /\ pc = "rename"
    /\ renamed' = RenameAndCopy(definitions, sub, subRootPfx, excluded)
    /\ pc' = "assemble"
    /\ UNCHANGED <<main, sub, subRootPfx, subRootAttrib, excluded, references, refsLeft, stack,
                   processed, definitions, warned, runs, closure, newMain>>
    /\ UNCHANGED <<newKids, auxVars>>

\* the namespace of XML Schema
XsNs == "http://www.w3.org/2001/XMLSchema"
\* sub_root.nsmap: the schema namespace under the prefix the target uses
\* ("" for the default namespace), the target namespace under tns
SubNsmap(pfx) == {[k |-> pfx, v |-> XsNs], [k |-> "tns", v |-> "urn-sub"]}

\* Mutant of NewRootNsmap: the namespace map of the target is taken whole
NewRootNsmapAll(nsmap) == nsmap

\* new_root_nsmap: {k: v for k, v in sub_root.nsmap.items() if k in ["xs"]}
NewRootNsmap(nsmap) == {b \in nsmap : b.k \in {"xs"}}

\* ET.Element("{xs_ns}schema", nsmap=...).nsmap: a namespace map that does
\* not bind the namespace of the tag gets a generated prefix for it
ElementNsmap(ns, nsmap) ==
    IF \E b \in nsmap : b.v = ns THEN nsmap
    ELSE nsmap \cup {[k |-> "ns0", v |-> ns]}

\* sub_root.attrib.get("elementFormDefault", "qualified")
ElementFormDefault(attrib) ==
    IF "elementFormDefault" \in DOMAIN attrib
    THEN attrib.elementFormDefault ELSE "qualified"

\* the attribute sets of a target's root
RootAttribs ==
    { [targetNamespace |-> "urn-sub"],
      [targetNamespace |-> "urn-sub", elementFormDefault |-> "unqualified"],
      [targetNamespace |-> "urn-sub", elementFormDefault |-> "qualified",
       version |-> "1"] }

\* create_sub_include, lines 292-312: the new root and its children
Assemble ==
    /\ pc = "assemble"
    /\ closure' =
          [tag |-> "schema",
           nsmap |-> ElementNsmap(XsNs, NewRootNsmap(SubNsmap(subRootPfx))),
           attrib |-> [elementFormDefault |-> ElementFormDefault(subRootAttrib)],
           children |-> renamed]
    /\ pc' = "update"
    /\ UNCHANGED <<main, sub, subRootPfx, subRootAttrib, excluded, references, refsLeft, stack,
                   processed, definitions, warned, runs, renamed, newMain>>
    /\ UNCHANGED <<newKids, auxVars>>

UpdateMain ==
    /\ pc = "update"
    /\ newMain' = RewriteImports(UpdateRefs(main, excluded), SubIncludeFile)
    /\ newKids' = UpdateComments(main)
    /\ pc' = "done"
    /\ UNCHANGED <<main, sub, subRootPfx, subRootAttrib, excluded, references, refsLeft, stack,
                   processed, definitions, warned, runs, renamed, closure>>
    /\ UNCHANGED auxVars

Next ==
    \/ Extract
    \/ StartRef
    \/ Call
    \/ Return
    \/ ResolveDone
    \/ Rename
    \/ Assemble
    \/ UpdateMain

----------------------------------------------------------------------------
(* The documents of the model *)

Local(l) == Val("", l)

\* a global definition with no attribute but its name; a global element with a type
TopNodes ==
    {Node(t, 0, n, None, NoVal) : t \in Kinds, n \in Names}
        \cup {Node("element", 0, n, "type", Local(r)) : n \in Names, r \in Names}

\* global definitions that get content
ParentNodes ==
    { Node("complexType", 0, "A", None, NoVal),
      Node("complexType", 0, "B", None, NoVal),
      Node("element", 0, "A", None, NoVal) }

\* the content of a definition: nodes below node 1
Inner ==
    {<<Node("element", 1, None, "type", Local(r))>> : r \in Names}
    \cup { <<Node("element", 1, "A", "minOccurs", Local("0"))>>,
           <<Node("extension", 1, None, "base", Local("B"))>>,
           <<Node("complexType", 1, None, None, NoVal),
             Node("element", 2, None, "ref", Local("B"))>> }

\* further content, of targets of a single definition
MoreInner ==
    { <<Node("attribute", 1, None, "ref", Local("A"))>>,
      <<Node("sequence", 1, None, "group", Local("A"))>>,
      <<Node("group", 1, None, "ref", Local("A"))>>,
      <<Node("simpleType", 1, "B", None, NoVal)>>,
      <<Node("complexType", 1, "B", None, NoVal)>>,
      <<Node("element", 1, "B", "type", Val("xs", "string"))>> }

\* one global definition with its content, as a document of its own
Templates ==
    {<<t>> : t \in TopNodes} \cup {<<t>> \o c : t \in ParentNodes, c \in Inner}

SingleDefs ==
    Templates \cup {<<t>> \o c : t \in ParentNodes, c \in MoreInner}

Shift(t, off) ==
    [j \in 1..Len(t) |-> [t[j] EXCEPT !.parent = IF @ = 0 THEN 0 ELSE @ + off]]

RECURSIVE SubDocs(_)
\* the target documents of at most k global definitions
SubDocs(k) ==
    IF k = 0 THEN {<<>>}
    ELSE LET less == SubDocs(k - 1)
         IN  less \cup {d \o Shift(t, Len(d)) : d \in less, t \in Templates}

MainNodes ==
    {Node(tk[1], 0, None, tk[2], Val(p, l)) :
        tk \in { <<"element", "type">>, <<"element", "ref">>,
                 <<"attribute", "type">>, <<"attribute", "ref">>,
                 <<"extension", "base">>, <<"group", "ref">> },
        p \in {NsAlias, "xs"}, l \in Names}

RECURSIVE MainDocs(_)
\* the consumer documents of at most k nodes
MainDocs(k) ==
    IF k = 0 THEN {<<>>}
    ELSE LET less == MainDocs(k - 1)
         IN  less \cup {Append(d, n) : d \in less, n \in MainNodes}

\* consumers that ask for an element, for a type, for both names
MainSmall ==
    { <<Node("element", 0, None, "ref", Val(NsAlias, "A"))>>,
      <<Node("element", 0, None, "type", Val(NsAlias, "A"))>>,
      <<Node("element", 0, None, "ref", Val(NsAlias, "A")),
        Node("element", 0, None, "type", Val(NsAlias, "B"))>> }

\* and for a type spelt with a trailing blank, for an attribute
MainMore ==
    MainSmall \cup
    { <<Node("element", 0, None, "type", Val(NsAlias, "A "))>>,
      <<Node("attribute", 0, None, "ref", Val(NsAlias, "B"))>> }

\* the end-to-end target: element A of type B, complexType B
SubEndToEnd ==
    <<Node("element", 0, "A", "type", Local("B")),
      Node("complexType", 0, "B", None, NoVal)>>

\* targets of more than one level: a cycle of two complexTypes; the same
\* with a named type nested in the second; a local element before the
\* global one of its name; named types nested in an element
SubSpecial ==
    { SubEndToEnd,
      <<Node("complexType", 0, "A", None, NoVal),
        Node("element", 1, None, "type", Local("B")),
        Node("complexType", 0, "B", None, NoVal),
        Node("extension", 3, None, "base", Local("A"))>>,
      <<Node("complexType", 0, "A", None, NoVal),
        Node("element", 1, None, "type", Local("B")),
        Node("complexType", 0, "B", None, NoVal),
        Node("element", 3, None, "type", Local("A")),
        Node("complexType", 4, "X", None, NoVal)>>,
      <<Node("complexType", 0, "B", None, NoVal),
        Node("element", 1, "A", "use", Local("optional")),
        Node("element", 0, "A", "type", Local("B"))>>,
      <<Node("element", 0, "A", None, NoVal),
        Node("complexType", 1, "B", None, NoVal),
        Node("element", 2, "X", "type", Val("xs", "string"))>> }

\* nothing is computed yet
Fresh ==
    /\ references = {}
    /\ refsLeft = {}
    /\ stack = <<>>
    /\ processed = {}
    /\ definitions = EmptyDefinitions
    /\ warned = {}
    /\ runs = [p \in Names \X Kinds |-> 0]
    /\ renamed = <<>>
    /\ closure = [tag |-> None, nsmap |-> {}, attrib |-> <<>>, children |-> <<>>]
    /\ newMain = <<>>
    /\ newKids = <<>>
    /\ prev = [run |-> 0, layout |-> <<>>]
    /\ fstack = <<>>
    /\ outcome = [error |-> None, status |-> None]

\* the documents are in memory: no file is looked at
NoFiles ==
    /\ mainPath = [dir |-> <<>>, name |-> <<>>]
    /\ fsys = <<>>
    /\ mode = "xsd_import2include"

Start ==
    /\ pc = "extract"
    /\ Fresh
    /\ NoFiles

Init ==
    /\ Start
    /\ \/ /\ main \in MainSmall
          /\ sub \in SubDocs(MaxDefs)
          /\ excluded = {}
          /\ subRootPfx = "xs"
          /\ subRootAttrib = [targetNamespace |-> "urn-sub"]
       \/ /\ main \in MainDocs(MaxMainNodes)
          /\ sub = SubEndToEnd
          /\ excluded \in SUBSET Names
          /\ subRootPfx = "xs"
          /\ subRootAttrib = [targetNamespace |-> "urn-sub"]
       \/ /\ main \in MainMore
          /\ sub \in SubSpecial \cup SingleDefs
          /\ excluded \in SUBSET Names
          /\ subRootPfx \in {"xs", "xsd", ""}
          /\ subRootAttrib \in RootAttribs

Spec == Init /\ [][Next]_vars

----------------------------------------------------------------------------
(* Two runs on the same input *)

\* main() is started again on the files of the run that has ended
Rerun ==
    /\ pc = "done"
    /\ prev.run = 0
    /\ prev' = [run |-> 1, layout |-> renamed]
    /\ pc' = "extract"
    /\ references' = {}
    /\ refsLeft' = {}
    /\ stack' = <<>>
    /\ processed' = {}
    /\ definitions' = EmptyDefinitions
    /\ warned' = {}
    /\ runs' = [p \in Names \X Kinds |-> 0]
    /\ renamed' = <<>>
    /\ closure' = [tag |-> None, nsmap |-> {}, attrib |-> <<>>, children |-> <<>>]
    /\ newMain' = <<>>
    /\ newKids' = <<>>
    /\ UNCHANGED <<main, sub, subRootPfx, subRootAttrib, excluded, mainPath, fsys,
                   mode, fstack, outcome>>

\* a consumer that refers to two elements; a target that defines them
MainTwoRefs ==
    <<Node("element", 0, None, "ref", Val(NsAlias, "A")),
      Node("element", 0, None, "ref", Val(NsAlias, "B"))>>
SubTwoElements ==
    <<Node("element", 0, "A", None, NoVal),
      Node("element", 0, "B", "type", Val("xs", "string"))>>


----------------------------------------------------------------------------
(* update_main_xsd on consumers with imports, comments and nested content *)

\* Top-level children of a consumer document.
MaxItems == 3

Items ==
    { <<UNode("import", 0, "namespace", Val("", "urn-sub"), "sub.xsd")>>,
      <<UNode("import", 0, None, NoVal, "sub.xsd")>>,
      <<CommentNode(0, "a")>>,
      <<CommentNode(0, "b")>>,
      <<UNode("element", 0, "ref", Val(NsAlias, "A"), None)>>,
      <<UNode("element", 0, "type", Val("xs", "string"), None)>>,
      <<UNode("complexType", 0, None, NoVal, None),
        CommentNode(1, "a"),
        UNode("extension", 1, "base", Val(NsAlias, "B"), None)>>,
      <<UNode("complexType", 0, None, NoVal, None),
        UNode("sequence", 1, None, NoVal, None),
        UNode("element", 2, "type", Val(NsAlias, "A"), None),
        CommentNode(2, "c"),
        CommentNode(2, "b")>> }

RECURSIVE ConsumerDocs(_)
\* the consumer documents of at most k top-level children
ConsumerDocs(k) ==
    IF k = 0 THEN {<<>>}
    ELSE LET less == ConsumerDocs(k - 1)
         IN  less \cup {d \o Shift(t, Len(d)) : d \in less, t \in Items}

\* update_main_xsd called on its own: the closure is written already
InitUpdate ==
    /\ pc = "update"
    /\ Fresh
    /\ NoFiles
    /\ main \in ConsumerDocs(MaxItems)
    /\ sub = <<>>
    /\ excluded \in SUBSET Names
    /\ subRootPfx = "xs"
    /\ subRootAttrib = [targetNamespace |-> "urn-sub"]

SpecUpdate == InitUpdate /\ [][UpdateMain]_vars

----------------------------------------------------------------------------
(* xsd_import2include: the files it reads and writes *)

\* A path is a directory (the sequence of its components) and a file name;
\* a file name is the sequence of the pieces it is spelt with.
Path(dir, name) == [dir |-> dir, name |-> name]
Dirname(p) == p.dir
Basename(p) == p.name
\* no path: the attribute is missing (Python None)
NoPath == Path(<<>>, <<>>)
\* os.path.join(directory, relative path)
Join(dir, rel) == Path(dir \o rel.dir, rel.name)

RECURSIVE Replace(_, _, _)
\* str.replace(old, new): every occurrence of the piece old
Replace(name, old, new) ==
    IF name = <<>> THEN <<>>
    ELSE (IF Head(name) = old THEN new ELSE <<Head(name)>>)
            \o Replace(Tail(name), old, new)

\* the namespace the consumer binds NsAlias to
SubNs == Val("", "urn-sub")

\* main_root.findall(".//xs:import"), the first: its node, 0 for none
FirstImport(doc) == First({i \in Ids(doc) : doc[i].tag = "import"})
\* sub_xsd_file as the import gives it, None without import or attribute
ImportLocation(doc) ==
    IF FirstImport(doc) = 0 THEN NoPath ELSE doc[FirstImport(doc)].loc
\* prefix: the alias of the imported namespace and "_", or ""
ImportPrefix(doc) ==
    IF FirstImport(doc) # 0 /\ doc[FirstImport(doc)].ak = "namespace"
                           /\ doc[FirstImport(doc)].av = SubNs
    THEN Prefix ELSE ""

SubXsdFile(path, doc) == Join(Dirname(path), ImportLocation(doc))
SubIncludePath(path, doc) ==
    Path(Dirname(SubXsdFile(path, doc)),
         Replace(Basename(SubXsdFile(path, doc)), ".xsd", <<"_include", ".xsd">>))
OutputMainXsd(path) ==
    Path(Dirname(path), Replace(Basename(path), ".xsd", <<"_processed", ".xsd">>))

\* tree.write(path): the file is created or overwritten
WriteFile(fs, path, content) ==
    [q \in DOMAIN fs \cup {path} |-> IF q = path THEN content ELSE fs[q]]

\* xsd_import2include(main_xsd_file, ...), as seen from the disk
Import2Include ==
    /\ pc = "start"
    /\ IF ImportLocation(main) = NoPath \/ ImportPrefix(main) = ""
       THEN /\ pc' = "returned"
            /\ UNCHANGED fsys
       ELSE /\ pc' = "processed"
            /\ fsys' = WriteFile(
                          WriteFile(fsys, SubIncludePath(mainPath, main), "closure"),
                          OutputMainXsd(mainPath), "rewritten consumer")
    /\ UNCHANGED <<docVars, mainPath, prev, mode, fstack, outcome>>

\* Pieces of a file name.
MaxNameLen == 2

NamePieces == {"main", ".xsd", ".xml"}
FileNames == UNION {[1..n -> NamePieces] : n \in 1..MaxNameLen}
Dirs == {<<>>, <<"d">>}
SubLocations ==
    { Path(<<>>, <<"sub", ".xsd">>), Path(<<"e">>, <<"sub", ".xsd">>),
      Path(<<>>, <<"sub">>) }
ImportingDocs ==
    {<<UNode("import", 0, "namespace", SubNs, l)>> : l \in SubLocations}
        \cup { <<UNode("import", 0, "namespace", Val("", "urn-other"),
                       Path(<<>>, <<"sub", ".xsd">>))>>,
               <<UNode("import", 0, "namespace", SubNs, NoPath)>>,
               <<UNode("element", 0, "type", Val("xs", "string"), None)>> }

InitFiles ==
    /\ pc = "start"
    /\ Fresh
    /\ main \in ImportingDocs
    /\ sub = <<>>
    /\ excluded = {}
    /\ subRootPfx = "xs"
    /\ subRootAttrib = [targetNamespace |-> "urn-sub"]
    /\ mainPath \in {Path(d, n) : d \in Dirs, n \in FileNames}
    /\ mode \in {"xsd_import2include", "flattenxsd"}
    /\ fsys = IF ImportLocation(main) = NoPath
              THEN [q \in {mainPath} |-> "consumer"]
              ELSE [q \in {mainPath, SubXsdFile(mainPath, main)} |->
                       IF q = mainPath THEN "consumer" ELSE "target"]

\* the consumer of the end-to-end scenario: the import of sub.xsd and one
\* element that refers to s:A (Item; SubEndToEnd has A of type B, ItemType)
MainEndToEnd ==
    <<UNode("import", 0, "namespace", SubNs, Path(<<>>, <<"sub", ".xsd">>)),
      UNode("element", 0, "ref", Val(NsAlias, "A"), None)>>

InitTwice ==
    /\ Start
    /\ main \in MainSmall \cup {MainTwoRefs, MainEndToEnd}
    /\ sub \in SubSpecial \cup {SubTwoElements}
    /\ excluded \in {{}, {"B"}}
    /\ subRootPfx = "xs"
    /\ subRootAttrib = [targetNamespace |-> "urn-sub"]

NextTwice ==
    \/ Next
    \/ Rerun

SpecTwice == InitTwice /\ [][NextTwice]_vars

----------------------------------------------------------------------------
(* flatten_include.py: the flattener; flattenxsd.py: its use as the last   *)
(* step of the pipeline                                                    *)

\* Here a file on disk is the sequence of the children of its root.  A child
\* is an include node with its schemaLocation (NoPath when it has none) or
\* another node; id tells the nodes of the files apart.
Child(tag, loc, id) == [tag |-> tag, loc |-> loc, id |-> id]
IsInclude(c) == c.tag = "include"
\* "if schema_location:"
HasLocation(c) == c.loc # NoPath

\* the include children the loop of resolve_includes runs over
FindFirstInclude(kids) ==
    IF SelectSeq(kids, IsInclude) = <<>> THEN <<>>
    ELSE <<Head(SelectSeq(kids, IsInclude))>>
FindIncludes(kids) == SelectSeq(kids, IsInclude)

\* os.path.join(base_path, schema_location)
IncludedPath(base_path, include) == Join(base_path, include.loc)

\* the base path handed to the recursive call
IncludedBaseOfRoot(included_path) == Dirname(mainPath)
IncludedBase(included_path) == Dirname(included_path)

RECURSIVE RemoveChild(_, _)
\* element.remove(include)
RemoveChild(kids, c) ==
    IF kids = <<>> THEN <<>>
    ELSE IF Head(kids) = c THEN Tail(kids)
    ELSE <<Head(kids)>> \o RemoveChild(Tail(kids), c)

\* "for child in included_root: element.append(child)", then
\* "element.remove(include)"
SpliceKeepInclude(kids, include, included) == kids \o included
Splice(kids, include, included) == RemoveChild(kids \o included, include)

\* an activation of resolve_includes(element, base_path) on the root of the
\* file at path
FrameOfIncludes(path, base_path, fs) ==
    [path |-> path, base |-> base_path, kids |-> FindIncludes(fs[path]),
     todo |-> FindIncludes(fs[path])]
Frame(path, base_path, fs) ==
    [path |-> path, base |-> base_path, kids |-> fs[path],
     todo |-> FindIncludes(fs[path])]

\* Depth of the recursion at which Python raises RecursionError.
MaxDepth == 4

ExtPieces == {".xsd", ".xml"}
\* os.path.splitext on the pieces of a name: <<base, ext>>
Splitext(name) ==
    IF Len(name) >= 2 /\ name[Len(name)] \in ExtPieces
    THEN <<SubSeq(name, 1, Len(name) - 1), <<name[Len(name)]>>>>
    ELSE <<name, <<>>>>
\* the default of output_file
DefaultOutput(input_file) ==
    Path(Dirname(input_file),
         Splitext(Basename(input_file))[1] \o <<"_flattened">>
            \o Splitext(Basename(input_file))[2])
\* args.output_xsd of flattenxsd.py
OutputXsd == Path(<<>>, <<"out", ".xsd">>)
\* output_file of flatten_xsd
OutputFile == IF mode = "flatten_include" THEN DefaultOutput(mainPath) ELSE OutputXsd

Raise(error) ==
    /\ pc' = "raised"
    /\ outcome' = [outcome EXCEPT !.error = error]

TopFrame == fstack[Len(fstack)]

\* flatten_xsd up to the first call of resolve_includes; mainPath is input_file
FlattenStart ==
    /\ pc = "flatten"
    /\ IF mainPath \notin DOMAIN fsys
       THEN /\ Raise("input not found")
            /\ UNCHANGED fstack
       ELSE /\ fstack' = <<Frame(mainPath, Dirname(mainPath), fsys)>>
            /\ pc' = "resolving"
            /\ UNCHANGED outcome
    /\ UNCHANGED <<docVars, mainPath, fsys, prev, mode>>

\* the loop body for an include without schemaLocation
SkipInclude ==
    /\ pc = "resolving"
    /\ TopFrame.todo # <<>>
    /\ ~HasLocation(Head(TopFrame.todo))
    /\ fstack' = [fstack EXCEPT ![Len(fstack)].todo = Tail(@)]
    /\ UNCHANGED <<docVars, mainPath, fsys, prev, mode, pc, outcome>>

\* the loop body for an include whose file is missing
MissingInclude ==
    /\ pc = "resolving"
    /\ TopFrame.todo # <<>>
    /\ HasLocation(Head(TopFrame.todo))
    /\ IncludedPath(TopFrame.base, Head(TopFrame.todo)) \notin DOMAIN fsys
    /\ Raise("include not found")
    /\ UNCHANGED <<docVars, mainPath, fsys, prev, mode, fstack>>

\* the loop body up to the recursive call
EnterInclude ==
    /\ pc = "resolving"
    /\ TopFrame.todo # <<>>
    /\ HasLocation(Head(TopFrame.todo))
    /\ IncludedPath(TopFrame.base, Head(TopFrame.todo)) \in DOMAIN fsys
    /\ Len(fstack) < MaxDepth
    /\ fstack' = Append(fstack,
                    Frame(IncludedPath(TopFrame.base, Head(TopFrame.todo)),
                          IncludedBase(IncludedPath(TopFrame.base, Head(TopFrame.todo))),
                          fsys))
    /\ UNCHANGED <<docVars, mainPath, fsys, prev, mode, pc, outcome>>

\* the recursive call that exceeds the interpreter's recursion limit
RecursionLimit ==
    /\ pc = "resolving"
    /\ TopFrame.todo # <<>>
    /\ HasLocation(Head(TopFrame.todo))
    /\ IncludedPath(TopFrame.base, Head(TopFrame.todo)) \in DOMAIN fsys
    /\ Len(fstack) = MaxDepth
    /\ Raise("recursion")
    /\ UNCHANGED <<docVars, mainPath, fsys, prev, mode, fstack>>

\* the recursive call returns: the rest of the loop body
SpliceIncluded ==
    /\ pc = "resolving"
    /\ Len(fstack) > 1
    /\ TopFrame.todo = <<>>
    /\ LET caller == fstack[Len(fstack) - 1]
       IN  fstack' = Append(SubSeq(fstack, 1, Len(fstack) - 2),
                        [caller EXCEPT
                            !.kids = Splice(caller.kids, Head(caller.todo), TopFrame.kids),
                            !.todo = Tail(caller.todo)])
    /\ UNCHANGED <<docVars, mainPath, fsys, prev, mode, pc, outcome>>

\* the outermost call has returned: tree.write(output_file)
WriteFlattened ==
    /\ pc = "resolving"
    /\ Len(fstack) = 1
    /\ TopFrame.todo = <<>>
    /\ fsys' = WriteFile(fsys, OutputFile, TopFrame.kids)
    /\ pc' = "written"
    /\ UNCHANGED <<docVars, mainPath, prev, mode, fstack, outcome>>

\* the callers of xsd_import2include, main() and flatten_xsd_pipeline, unpack
\* the pair it returns; the early return gives None, which does not unpack
Unpack ==
    /\ pc \in {"returned", "processed"}
    /\ IF pc = "returned"
       THEN Raise("TypeError")
       ELSE /\ pc' = "unpacked"
            /\ UNCHANGED outcome
    /\ UNCHANGED <<docVars, mainPath, fsys, prev, mode, fstack>>

\* the end of the script: an exception ends flatten_include.py with status 1
\* (sys.exit) and xsd_import2include.py with status 1 (uncaught); flattenxsd.py
\* prints it and runs off its end
Exit ==
    /\ \/ pc \in {"raised", "written"}
       \/ pc = "unpacked" /\ mode = "xsd_import2include"
    /\ pc' = "exited"
    /\ outcome' = [outcome EXCEPT !.status =
                      IF pc = "raised" /\ mode # "flattenxsd" THEN "1" ELSE "0"]
    /\ UNCHANGED <<docVars, mainPath, fsys, prev, mode, fstack>>

NextFiles ==
    \/ Import2Include
    \/ Unpack
    \/ Exit

SpecFiles == InitFiles /\ [][NextFiles]_vars

NextFlatten ==
    \/ FlattenStart
    \/ SkipInclude
    \/ MissingInclude
    \/ EnterInclude
    \/ RecursionLimit
    \/ SpliceIncluded
    \/ WriteFlattened
    \/ Exit

\* Children of the root of a file.
MaxKids == 2

\* the files: A.xsd, d/B.xsd, d/C.xsd and C.xsd
FileA == Path(<<>>, <<"A", ".xsd">>)
FileB == Path(<<"d">>, <<"B", ".xsd">>)
FileC == Path(<<"d">>, <<"C", ".xsd">>)
FileC0 == Path(<<>>, <<"C", ".xsd">>)
\* schemaLocation values
LocB == Path(<<"d">>, <<"B", ".xsd">>)
LocC == Path(<<>>, <<"C", ".xsd">>)
LocSelf == Path(<<>>, <<"B", ".xsd">>)

Doc(file, items) ==
    [i \in 1..Len(items) |-> Child(items[i][1], items[i][2], <<file, i>>)]
DocsOf(file, templates) ==
    {Doc(file, items) : items \in UNION {[1..n -> templates] : n \in 0..MaxKids}}
DocsA ==
    DocsOf("A", {<<"element", NoPath>>, <<"include", LocB>>,
                 <<"include", LocC>>, <<"include", NoPath>>})
DocsB ==
    DocsOf("B", {<<"element", NoPath>>, <<"include", LocC>>,
                 <<"include", LocSelf>>})
DocC == Doc("C", <<<<"element", NoPath>>, <<"comment", NoPath>>>>)
DocC0 == Doc("C0", <<<<"element", NoPath>>>>)

\* the files on disk: which exist, and the content of A.xsd and d/B.xsd
FlattenFiles ==
    { [q \in present |->
          IF q = FileA THEN a ELSE IF q = FileB THEN b
          ELSE IF q = FileC THEN DocC ELSE DocC0] :
      a \in DocsA, b \in DocsB,
      present \in {{}} \cup {{FileA} \cup others :
                              others \in SUBSET {FileB, FileC, FileC0}} }

InitFlatten ==
    /\ pc = "flatten"
    /\ Fresh
    /\ main = <<>>
    /\ sub = <<>>
    /\ excluded = {}
    /\ subRootPfx = "xs"
    /\ subRootAttrib = [targetNamespace |-> "urn-sub"]
    /\ mainPath = FileA
    /\ mode \in {"flatten_include", "flattenxsd"}
    /\ fsys \in FlattenFiles

SpecFlatten == InitFlatten /\ [][NextFlatten]_vars

\* the script is one sequential program: a step that can be taken is taken
SpecFlattenLive == InitFlatten /\ [][NextFlatten]_vars /\ WF_vars(NextFlatten)

----------------------------------------------------------------------------
(* Vocabulary of the properties *)

\* resolve_dependencies has returned
Resolved == pc \in {"rename", "assemble", "update", "done"}
\* rename_and_copy_definitions has returned
Copied == pc \in {"assemble", "update", "done"}

Key(ref, ref_type) == <<Strip(ref), ref_type>>
\* the initial references, as (normalized name, kind)
Requested == {Key(r[1], r[2]) : r \in references}

BucketNames == DOMAIN EmptyDefinitions
\* the entries of ResolvedDefinitions that hold node d
EntriesOf(d) ==
    {e \in BucketNames \X (1..Len(sub)) :
        e[2] <= Len(definitions[e[1]]) /\ definitions[e[1]][e[2]].v = d}

\* node d, or a node below it, has a type or base attribute naming n
RefersTo(doc, d, n) ==
    \E i \in {d} \cup Desc(doc, d) :
        doc[i].ak \in {"type", "base"} /\ doc[i].av = Local(n)

\* the symbols one definition refers to: unprefixed type and base values as
\* simpleType and complexType, ref by the tag of the referring node, group
EdgesOf(doc, d) ==
    UNION { LET n == doc[i] IN
            IF n.av.p # "" \/ n.av.l = "" THEN {}
            ELSE IF n.ak \in {"type", "base"}
                 THEN {<<n.av.l, "simpleType">>, <<n.av.l, "complexType">>}
            ELSE IF n.ak = "ref" /\ n.tag \in {"element", "attribute"}
                 THEN {<<n.av.l, n.tag>>}
            ELSE IF n.ak = "group" THEN {<<n.av.l, "group">>}
            ELSE {} : i \in {d} \cup Desc(doc, d) }

Defined(doc, p) == LookupDefinition(doc, p[1], p[2]) # 0

RECURSIVE Reach(_, _)
\* the symbols transitively reachable from the set S of symbols
Reach(doc, S) ==
    LET T == S \cup UNION { EdgesOf(doc, LookupDefinition(doc, p[1], p[2])) :
                            p \in {q \in S : Defined(doc, q)} }
    IN  IF T = S THEN S ELSE Reach(doc, T)

\* ResolvedDefinitions holds, under p's kind and name, a definition of p
Present(p) ==
    /\ HasKey(definitions[BucketOf(p[2])], p[1])
    /\ LET d == DictGet(definitions[BucketOf(p[2])], p[1])
       IN  sub[d].tag = p[2] /\ sub[d].name = p[1]

\* the call the innermost activation makes next
Pending == Key(Head(Top.todo)[1], Head(Top.todo)[2])

----------------------------------------------------------------------------
(* Properties *)

\* C1: resolve_dependencies terminates on every target, cycles included (the
\* activations on the stack are for distinct symbols, all of them processed,
\* so the recursion is no deeper than the number of symbols); and when
\* complexType A refers to complexType B and B to A, and one of them is
\* requested, the returned closure holds the definitions of A and of B, each
\* exactly once.
C1_CycleResolvedOnce ==
    /\ Len(stack) <= Cardinality(processed)
    /\ \A i, j \in 1..Len(stack) :
          Key(stack[i].ref, stack[i].ref_type) = Key(stack[j].ref, stack[j].ref_type)
              => i = j
    /\ LET a == LookupDefinition(sub, "A", "complexType")
           b == LookupDefinition(sub, "B", "complexType")
       IN  ( /\ Resolved
             /\ a # 0 /\ b # 0
             /\ RefersTo(sub, a, "B") /\ RefersTo(sub, b, "A")
             /\ {<<"A", "complexType">>, <<"B", "complexType">>} \cap Requested # {} )
           => /\ Cardinality(EntriesOf(a)) = 1
              /\ Cardinality(EntriesOf(b)) = 1

\* C2: when resolve_dependencies has returned, every symbol reachable from the
\* initial references that is defined in the target is present in
\* ResolvedDefinitions under its kind and name.
C2_ClosureComplete ==
    Resolved =>
        \A p \in Reach(sub, Requested) : Defined(sub, p) => Present(p)

\* C3: the processed set only grows; the body of resolve_reference runs for a
\* symbol only when the symbol is not yet processed, marks it processed in
\* the same step (so before any of its dependencies is resolved: every
\* activation on the stack is of a processed symbol) and so runs at most
\* once per (name, kind); a pending call whose (name, kind) is not processed
\* does run the body, whatever other kinds of that name are processed.
C3_ProcessedGuard ==
    [][ /\ processed \subseteq processed'
        /\ \A p \in Names \X Kinds :
              runs'[p] # runs[p] =>
                 /\ p \notin processed
                 /\ p \in processed'
                 /\ runs'[p] = 1
        /\ \A i \in 1..Len(stack') :
              Key(stack'[i].ref, stack'[i].ref_type) \in processed'
        /\ (pc = "resolve" /\ stack # <<>> /\ Top.todo # <<>>
                /\ Pending \notin processed)
              => runs'[Pending] = runs[Pending] + 1
      ]_vars

\* C3 witness: both kinds of the name A have run the body once, and a call
\* for a processed symbol is about to be skipped.
C3_Witness ==
    /\ pc = "resolve" /\ stack # <<>> /\ Top.todo # <<>>
    /\ Pending \in processed
    /\ runs[<<"A", "simpleType">>] = 1
    /\ runs[<<"A", "complexType">>] = 1

\* C4: a requested symbol that is not defined in the target gets no entry in
\* ResolvedDefinitions, the run goes on to return, and every other requested
\* or reachable symbol that is defined has its entry.
C4_SoftFailure ==
    Resolved =>
        /\ \A p \in Requested :
              ~Defined(sub, p) => ~HasKey(definitions[BucketOf(p[2])], p[1])
        /\ \A p \in Reach(sub, Requested) :
              Defined(sub, p) => HasKey(definitions[BucketOf(p[2])], p[1])

\* C5: every node of the consumer whose type or base attribute is qualified
\* with the target prefix puts both (localName, simpleType) and
\* (localName, complexType) into the initial reference set.
C5_TypeAndBaseExtracted ==
    pc # "extract" =>
        \A i \in Ids(main) :
            ( /\ main[i].ak \in {"type", "base"}
              /\ main[i].av.p = NsAlias )
            => /\ <<main[i].av.l, "simpleType">> \in references
               /\ <<main[i].av.l, "complexType">> \in references

\* C6: the element and attribute references of the initial set are exactly
\* those the target-prefixed ref attributes give by the tag of their node:
\* (localName, element) for an element node, (localName, attribute) for an
\* attribute node, and nothing else.
C6_RefKindByTag ==
    pc # "extract" =>
        {r \in references : r[2] \in {"element", "attribute"}}
          = { <<main[i].av.l, main[i].tag>> :
                i \in {j \in Ids(main) :
                         /\ main[j].ak = "ref"
                         /\ main[j].av.p = NsAlias
                         /\ main[j].tag \in {"element", "attribute"}} }

\* C7: the name of a copied top-level definition is prefix + originalName if
\* and only if its source is a direct child of the target's root and
\* originalName is not excluded; otherwise it is originalName.
C7_GlobalNamesPrefixed ==
    Copied =>
        \A k \in 1..Len(renamed) :
            LET c == renamed[k][1]
                n == sub[c.src]
            IN  c.name = IF n.parent = 0 /\ n.name \notin excluded
                         THEN Prefix \o n.name ELSE n.name

C9_ReferencesRewritten ==
    Copied =>
        \A k \in 1..Len(renamed) : \A j \in 1..Len(renamed[k]) :
            LET c == renamed[k][j]
                n == sub[c.src]
            IN  n.ak \in {"type", "ref", "base"} =>
                  /\ c.ak = n.ak
                  /\ (n.av.p = "" /\ n.av.l \notin excluded)
                        => c.av = Val("", Prefix \o n.av.l)
                  /\ (n.av.p # "" \/ n.av.l \in excluded) => c.av = n.av

\* C9 witness: one closure with a reference below a definition that was
\* prefixed and a reference to an excluded name that was kept.
C9_Witness ==
    /\ Copied
    /\ "B" \in excluded
    /\ \E k \in 1..Len(renamed) : \E j \in 2..Len(renamed[k]) :
          /\ sub[renamed[k][j].src].ak \in {"type", "ref", "base"}
          /\ sub[renamed[k][j].src].av = Local("A")
          /\ renamed[k][j].av = Local(Prefix \o "A")
    /\ \E k \in 1..Len(renamed) : \E j \in 1..Len(renamed[k]) :
          /\ sub[renamed[k][j].src].ak = "type"
          /\ sub[renamed[k][j].src].av = Local("B")
          /\ renamed[k][j].av = Local("B")

\* C10: after the run, a global definition of the target is named by its
\* bare name in the closure when the name is excluded and by prefix + name
\* when it is not, and every ref, type and base attribute of the consumer
\* that pointed at it through the target prefix reads that same name.
C10_ExclusionConsistent ==
    pc = "done" =>
        /\ \A k \in 1..Len(closure.children) :
              LET c == closure.children[k][1]
                  n == sub[c.src]
              IN  n.parent = 0 =>
                     c.name = IF n.name \in excluded
                              THEN n.name ELSE Prefix \o n.name
        /\ \A i \in Ids(main) :
              ( /\ main[i].ak \in {"ref", "type", "base"}
                /\ main[i].av.p = NsAlias )
              => newMain[i].av = IF main[i].av.l \in excluded
                                 THEN Local(main[i].av.l)
                                 ELSE Local(Prefix \o main[i].av.l)

----------------------------------------------------------------------------
(* Properties of update_main_xsd *)

Done == pc = "done"
\* a ref, type or base attribute qualified with the target prefix
Qualified(n) == n.ak \in RefAttrs /\ n.av.p = NsAlias
IsTopImport(n) == n.tag = "import" /\ n.parent = 0
\* the element children of every parent are the same, in the same order
SameElementStructure ==
    /\ DOMAIN newKids = {0} \cup ElementIds(main)
    /\ \A p \in DOMAIN newKids :
          ElementsIn(main, newKids[p]) = ElementsIn(main, KidsOf(main, p))
    /\ \A i \in Ids(main) : newMain[i].parent = main[i].parent

\* C11, as claimed: after update_main_xsd no ref, type or base attribute
\* carries the target prefix, and every node keeps its tag and every
\* attribute value that was not qualified with the target prefix.
C11_OnlyReferencesChange ==
    Done =>
        /\ \A i \in Ids(main) :
              newMain[i].ak \in RefAttrs => newMain[i].av.p # NsAlias
        /\ \A i \in Ids(main) :
              /\ newMain[i].tag = main[i].tag
              /\ ~Qualified(main[i]) => newMain[i] = main[i]
        /\ SameElementStructure

\* C11, amended: after update_main_xsd no ref, type or base attribute, at
\* any depth, carries the target prefix; the children of every parent are
\* the same elements in the same order; and every node that is not a
\* top-level import keeps its tag, its name and every attribute value that
\* was not qualified with the target prefix.
C11_ReferencesRewritten ==
    Done =>
        /\ \A i \in Ids(main) :
              newMain[i].ak \in RefAttrs => newMain[i].av.p # NsAlias
        /\ \A i \in Ids(main) :
              ~IsTopImport(main[i]) =>
                 /\ newMain[i].tag = main[i].tag
                 /\ newMain[i].name = main[i].name
                 /\ newMain[i].ak = main[i].ak
                 /\ ~Qualified(main[i]) => newMain[i] = main[i]
        /\ SameElementStructure

\* C11 witness: a rewritten consumer with a qualified reference below the
\* top level, an attribute of another namespace and an import.
C11_Witness ==
    /\ Done
    /\ \E i, j, k \in Ids(main) :
          /\ main[i].parent # 0 /\ Qualified(main[i])
          /\ newMain[i].av = Local(Prefix \o main[i].av.l)
          /\ main[j].av = Val("xs", "string") /\ newMain[j] = main[j]
          /\ IsTopImport(main[k])

\* C12: after update_main_xsd the consumer has no top-level import node;
\* each one is an include node at the same place among the children of the
\* root, without namespace attribute and with the closure file path as its
\* schemaLocation.
C12_ImportsBecomeIncludes ==
    Done =>
        /\ \A i \in Ids(main) : ~IsTopImport(newMain[i])
        /\ \A i \in Ids(main) :
              IsTopImport(main[i]) =>
                 /\ newMain[i].tag = "include"
                 /\ newMain[i].ak # "namespace"
                 /\ newMain[i].loc = SubIncludeFile
                 /\ \E k \in 1..Len(ElementsIn(main, newKids[0])) :
                       /\ ElementsIn(main, newKids[0])[k] = i
                       /\ ElementsIn(main, KidsOf(main, 0))[k] = i

\* C12 witness: a rewritten consumer whose second element was an import
\* with a namespace attribute, with comments around it.
C12_Witness ==
    /\ Done
    /\ \E i \in Ids(main) :
          /\ IsTopImport(main[i]) /\ main[i].ak = "namespace"
          /\ Len(ElementsIn(main, KidsOf(main, 0))) >= 2
          /\ ElementsIn(main, KidsOf(main, 0))[2] = i
          /\ \E c \in Ids(main) : IsComment(main[c]) /\ main[c].parent = 0

\* the comments whose text no other comment of the document has
UniqueComments ==
    {c \in Ids(main) :
        /\ IsComment(main[c])
        /\ \A d \in Ids(main) :
              (IsComment(main[d]) /\ main[d].av = main[c].av) => d = c}
KeepPlace(ids) ==
    SelectSeq(ids, LAMBDA i : ~IsComment(main[i]) \/ i \in UniqueComments)

\* C13: every comment whose text is unique in the consumer document is in
\* the rewritten document under the same parent and at its place among the
\* elements and the other such comments of that parent, adjacent comments
\* included; every comment text of the document is still in it.
C13_CommentsKeepPlace ==
    Done =>
        /\ \A p \in DOMAIN newKids :
              KeepPlace(newKids[p]) = KeepPlace(KidsOf(main, p))
        /\ \A c \in Ids(main) :
              IsComment(main[c]) =>
                 \E p \in DOMAIN newKids : \E k \in 1..Len(newKids[p]) :
                    main[newKids[p][k]].av = main[c].av
                       /\ IsComment(main[newKids[p][k]])

----------------------------------------------------------------------------
(* Properties of the files *)

\* C14: for every consumer file path, the rewritten consumer is written to
\* a path other than the input path, and the input file holds after the run
\* what it held before.
C14_InputNotOverwritten ==
    pc = "processed" =>
        /\ OutputMainXsd(mainPath) # mainPath
        /\ fsys[mainPath] = "consumer"

----------------------------------------------------------------------------
(* Properties of the assembled closure *)

Assembled == pc \in {"update", "done"} /\ closure.tag # None

\* C15: the root of the closure document is a schema node whose only
\* attribute is elementFormDefault, with the value of the target's root or
\* "qualified" when that has none; its namespace map holds one prefix, bound
\* to the schema namespace, and no other binding of the target; its children
\* are the renamed definitions in the renamer's order.
C15_ClosureRoot ==
    Assembled =>
        /\ closure.tag = "schema"
        /\ DOMAIN closure.attrib = {"elementFormDefault"}
        /\ closure.attrib.elementFormDefault =
              IF "elementFormDefault" \in DOMAIN subRootAttrib
              THEN subRootAttrib.elementFormDefault ELSE "qualified"
        /\ \E b \in closure.nsmap : closure.nsmap = {b} /\ b.v = XsNs
        /\ closure.children = renamed

\* C15 witness: a closure with two definitions, of a target that declares
\* the schema namespace as xsd and has no elementFormDefault.
C15_Witness ==
    /\ Assembled
    /\ subRootPfx = "xsd"
    /\ "elementFormDefault" \notin DOMAIN subRootAttrib
    /\ Len(closure.children) >= 2

----------------------------------------------------------------------------
(* Properties of two runs *)

\* C16: a second run on the same consumer, target, prefix and exclusions
\* yields the same sequence of renamed definitions as the first, in whatever
\* order the two runs iterate the initial reference set.
C16_SameLayout ==
    (Copied /\ prev.run = 1) => renamed = prev.layout

----------------------------------------------------------------------------
(* The flattener: vocabulary *)

\* flatten_xsd has returned without an exception
Flattened == pc \in {"written", "exited"} /\ outcome.error = None
\* the inputs of the run: every file but the one it writes
InputFiles == DOMAIN fsys \ {OutputFile}
\* every include node of the inputs names a file
AllIncludesLocated ==
    \A p \in InputFiles : \A i \in DOMAIN fsys[p] :
        IsInclude(fsys[p][i]) => HasLocation(fsys[p][i])
\* the files a file includes, each schemaLocation taken from the file's
\* own directory
IncludedBy(p) ==
    {Join(Dirname(p), fsys[p][i].loc) :
        i \in {k \in DOMAIN fsys[p] : IsInclude(fsys[p][k]) /\ HasLocation(fsys[p][k])}}
RECURSIVE ReachedIn(_, _)
ReachedIn(files, n) ==
    IF n = 0 THEN files
    ELSE ReachedIn(files \cup UNION {IncludedBy(p) : p \in files \cap DOMAIN fsys}, n - 1)
\* the input file and the files it includes, directly or not
Reached == ReachedIn({mainPath}, Cardinality(DOMAIN fsys))
Range(f) == {f[i] : i \in DOMAIN f}

RECURSIVE InPlace(_)
\* the children of the file at path p, every include node that names a file
\* replaced, where it stands, by the children so obtained of that file
InPlace(p) ==
    LET kids == fsys[p]
        RECURSIVE Cat(_)
        Cat(i) ==
            IF i > Len(kids) THEN <<>>
            ELSE (IF IsInclude(kids[i]) /\ HasLocation(kids[i])
                  THEN InPlace(Join(Dirname(p), kids[i].loc))
                  ELSE <<kids[i]>>) \o Cat(i + 1)
    IN  Cat(1)

\* C18: when flatten_xsd has completed, the children of an included file
\* stand where the include node stood: the document written is the input
\* with every include node replaced in place, so what followed an include
\* node follows what was spliced for it.
C18_SplicedInPlace ==
    Flattened => fsys[OutputFile] = InPlace(mainPath)

\* C19: whenever resolve_includes is entered for an included file, that
\* file is the schemaLocation joined to the directory of the file holding
\* the include node, at every depth, and its own includes are looked up in
\* its own directory; whenever the children of an included file are
\* spliced, no include node naming a file is left among them.
C19_ResolvedAgainstIncluder ==
    [][ /\ (Len(fstack') = Len(fstack) + 1 /\ Len(fstack) >= 1) =>
              /\ fstack'[Len(fstack')].path =
                    Join(Dirname(fstack[Len(fstack)].path),
                         Head(fstack[Len(fstack)].todo).loc)
              /\ fstack'[Len(fstack')].base = Dirname(fstack'[Len(fstack')].path)
        /\ (Len(fstack) > 1 /\ Len(fstack') = Len(fstack) - 1) =>
              \A c \in Range(fstack[Len(fstack)].kids) :
                  ~(IsInclude(c) /\ HasLocation(c)) ]_vars

\* C19 witness: a completed run on A.xsd, which includes d/B.xsd, which
\* includes C.xsd; both d/C.xsd and C.xsd exist, and the document written
\* has the children of d/C.xsd and none of C.xsd.
C19_Witness ==
    /\ Flattened
    /\ {FileC, FileC0} \subseteq DOMAIN fsys
    /\ \E i \in DOMAIN fsys[FileA] : fsys[FileA][i].loc = LocB
    /\ \A i \in DOMAIN fsys[FileA] : fsys[FileA][i].loc # LocC
    /\ \E i \in DOMAIN fsys[FileB] : fsys[FileB][i].loc = LocC
    /\ Range(DocC) \subseteq Range(fsys[OutputFile])
    /\ Range(DocC0) \cap Range(fsys[OutputFile]) = {}

\* C20: when an include names a file that does not exist, at any depth, the
\* run ends with a non-zero exit status and without having written the
\* output file, under flatten_include.py and under flattenxsd.py.
C20_MissingIncludeFatal ==
    (pc = "exited" /\ outcome.error = "include not found") =>
        /\ OutputFile \notin DOMAIN fsys
        /\ outcome.status # "0"

\* C21: when flatten_xsd has completed on an input file whose root has no
\* include child, the file it wrote has the children of the input, the same
\* nodes in the same order; a file so written has no include child either,
\* so flattening it again gives the same children.
C21_NoIncludeNoChange ==
    (Flattened /\ FindIncludes(fsys[mainPath]) = <<>>) =>
        /\ OutputFile \in DOMAIN fsys
        /\ fsys[OutputFile] = fsys[mainPath]
        /\ FindIncludes(fsys[OutputFile]) = <<>>

\* C21 witness: a completed run on an A.xsd of two children, neither an
\* include node.
C21_Witness ==
    /\ Flattened
    /\ Len(fsys[mainPath]) = 2
    /\ FindIncludes(fsys[mainPath]) = <<>>
    /\ OutputFile \in DOMAIN fsys

----------------------------------------------------------------------------
(* The run without import *)

\* xsd_import2include finds no import with a schemaLocation and a prefix
NoValidImport == ImportLocation(main) = NoPath \/ ImportPrefix(main) = ""

\* C22: when the consumer has no import node from which a target file and
\* a prefix can be derived, the run ends without an exception and with exit
\* status 0, and the files on disk are those it started with, under
\* xsd_import2include.py and under flattenxsd.py.
C22_NoImportNoOp ==
    (pc = "exited" /\ NoValidImport) =>
        /\ outcome.error = None
        /\ outcome.status = "0"
        /\ \A q \in DOMAIN fsys : fsys[q] \in {"consumer", "target"}

----------------------------------------------------------------------------
(* The end-to-end scenario *)

\* the run on MainEndToEnd and SubEndToEnd, nothing excluded
EndToEnd == main = MainEndToEnd /\ sub = SubEndToEnd /\ excluded = {}

\* C23: the run on the consumer that imports urn:sub under the alias s and
\* has one element with ref s:A, and on the target with the global element A
\* of type B and the global complexType B, ends with a closure of exactly
\* two definitions, the element s_A of type s_B and the complexType s_B, and
\* with a consumer of two nodes, an include of the closure file where the
\* import was, without namespace attribute, and the element with ref s_A.
C23_EndToEnd ==
    (Done /\ EndToEnd) =>
        /\ Len(closure.children) = 2
        /\ Len(closure.children[1]) = 1
        /\ closure.children[1][1].tag = "element"
        /\ closure.children[1][1].name = Prefix \o "A"
        /\ closure.children[1][1].ak = "type"
        /\ closure.children[1][1].av = Val("", Prefix \o "B")
        /\ Len(closure.children[2]) = 1
        /\ closure.children[2][1].tag = "complexType"
        /\ closure.children[2][1].name = Prefix \o "B"
        /\ Len(newMain) = 2
        /\ newMain[1].tag = "include"
        /\ newMain[1].loc = SubIncludeFile
        /\ newMain[1].ak = None
        /\ newMain[2].tag = "element"
        /\ newMain[2].ak = "ref"
        /\ newMain[2].av = Val("", Prefix \o "A")
        /\ newKids[0] = <<1, 2>>

\* C23 witness: the end of the run of the scenario.
C23_Witness == Done /\ EndToEnd /\ prev.run = 0 /\ closure.tag = "schema"

----------------------------------------------------------------------------
(* Copies *)

\* C24: no step of the run changes the target document: resolve_dependencies
\* only reads it, and rename_and_copy_definitions builds every node of the
\* closure anew and renames the new node, so the target keeps all its nodes
\* with their names and attributes (a node has one parent: a target node put
\* into the closure would have left the target).
C24_TargetUnchanged == [][sub' = sub]_vars

\* C24 witness: the closure is assembled and holds a copy whose name is the
\* prefixed name of the target node it was made from, which kept its name.
C24_Witness ==
    /\ Assembled
    /\ \E i \in DOMAIN closure.children :
          /\ closure.children[i][1].src \in DOMAIN sub
          /\ closure.children[i][1].name = Prefix \o sub[closure.children[i][1].src].name

----------------------------------------------------------------------------
(* The closure *)

\* the nodes held by ResolvedDefinitions
Held == UNION {{definitions[b][i].v : i \in DOMAIN definitions[b]} : b \in BucketNames}

\* C25: when resolve_dependencies has returned, every node it holds is a
\* named child of the root of the target, and the symbol it defines is
\* reachable from the initial references; no nested or anonymous type is
\* held as a member of its own.
C25_ClosureMinimal ==
    Resolved =>
        \A d \in Held :
            /\ sub[d].parent = 0
            /\ sub[d].name # None
            /\ <<sub[d].name, sub[d].tag>> \in Reach(sub, Requested)

\* the children of the root of the target that are elements named n
GlobalElements(n) == {j \in Named(sub, "element", n) : sub[j].parent = 0}

\* C26: the node recorded for an element symbol is an element of that name;
\* when the target has a child of the root that is an element of that name,
\* the recorded node is such a child, wherever a nested element of the same
\* name stands in the document, so a nested element is recorded only when
\* the root has no such child.
C26_GlobalElementFirst ==
    \A i \in DOMAIN definitions.elements :
        LET k == definitions.elements[i].k
            d == definitions.elements[i].v
        IN  /\ d \in Named(sub, "element", k)
            /\ GlobalElements(k) # {} => d \in GlobalElements(k)

\* C26 witness: the target has a nested element A that stands before the
\* global element A, and the global one is recorded for (A, element).
C26_Witness ==
    /\ Resolved
    /\ \E i \in DOMAIN definitions.elements :
          /\ definitions.elements[i].k = "A"
          /\ definitions.elements[i].v \in GlobalElements("A")
          /\ \E j \in Named(sub, "element", "A") :
                sub[j].parent # 0 /\ j < definitions.elements[i].v

\* C27: when resolve_dependencies has returned, every entry of
\* ResolvedDefinitions, stored under the kind K and the name N, is a node of
\* tag K whose name attribute is N: the entry recorded for a symbol is not
\* replaced later by another definition.
C27_KeyConsistency ==
    Resolved =>
        \A kind \in Kinds : \A i \in DOMAIN definitions[BucketOf(kind)] :
            LET entry == definitions[BucketOf(kind)][i]
            IN  /\ sub[entry.v].tag = kind
                /\ sub[entry.v].name = entry.k

----------------------------------------------------------------------------
(* Referential integrity *)

\* the kinds of definition a reference attribute of node n can name
KindsFor(n) ==
    IF n.ak \in {"type", "base"} THEN {"simpleType", "complexType"}
    ELSE IF n.ak = "ref" THEN {n.tag} \cap Kinds
    ELSE {}
\* the root of the target has a child of one of the kinds with the name
GloballyDefined(name, kinds) ==
    \E j \in DOMAIN sub :
        sub[j].parent = 0 /\ sub[j].name = name /\ sub[j].tag \in kinds
\* every symbol the consumer names in the target namespace, and every symbol
\* a node of the target names without prefix, is defined by a child of the
\* root of the target
AllDefinedGlobally ==
    /\ \A i \in DOMAIN main :
          (main[i].ak \in {"ref", "type", "base"} /\ main[i].av.p = NsAlias)
              => GloballyDefined(main[i].av.l, KindsFor(main[i]))
    /\ \A j \in DOMAIN sub :
          (sub[j].ak \in {"ref", "type", "base"} /\ sub[j].av.p = "" /\ sub[j].av.l # "")
              => GloballyDefined(sub[j].av.l, KindsFor(sub[j]))
\* the names of the top-level definitions of the closure of the given kinds
TopNames(kinds) ==
    {closure.children[i][1].name :
        i \in {k \in DOMAIN closure.children : closure.children[k][1].tag \in kinds}}

\* C28: at the end of a run in which every referenced symbol is defined by
\* a child of the root of the target, every unprefixed type, ref or base
\* value in the closure is the name of a top-level definition of the closure
\* of the matching kind, and every ref, type or base value of the consumer
\* that named the target namespace is the name of a top-level definition of
\* the closure.
C28_ReferentialIntegrity ==
    (Done /\ AllDefinedGlobally) =>
        /\ \A i \in DOMAIN closure.children : \A j \in DOMAIN closure.children[i] :
              LET n == closure.children[i][j]
              IN  (n.ak \in {"ref", "type", "base"} /\ n.av.p = "" /\ n.av.l # "")
                      => n.av.l \in TopNames(KindsFor(n))
        /\ \A i \in DOMAIN main :
              (main[i].ak \in {"ref", "type", "base"} /\ main[i].av.p = NsAlias)
                  => newMain[i].av.l \in TopNames(Kinds)

----------------------------------------------------------------------------
(* Termination of the flattener *)

\* every file the input includes, directly or not, exists
AllTargetsExist == Reached \subseteq DOMAIN fsys
\* no file the input reaches includes itself, directly or not
Acyclic ==
    \A p \in Reached \cap DOMAIN fsys :
        p \notin ReachedIn(IncludedBy(p), Cardinality(DOMAIN fsys))

\* C29: when the files reachable from the input by includes all exist and
\* none of them includes itself, directly or not, flatten_xsd returns and the
\* script ends without an exception; every return of a recursive call
\* removes one include node from the including document and one from the
\* list being iterated; and a run that reaches a file that includes itself
\* never completes: nothing stops the recursion but the interpreter's limit.
C29_Terminates ==
    /\ (AllTargetsExist /\ Acyclic) => <>(pc = "exited" /\ outcome.error = None)
    /\ [][ (Len(fstack) > 1 /\ Len(fstack') = Len(fstack) - 1) =>
              /\ Len(FindIncludes(fstack'[Len(fstack')].kids)) =
                    Len(FindIncludes(fstack[Len(fstack) - 1].kids))
                        + Len(FindIncludes(fstack[Len(fstack)].kids)) - 1
              /\ Len(fstack'[Len(fstack')].todo) =
                    Len(fstack[Len(fstack) - 1].todo) - 1 ]_vars
    /\ []((AllTargetsExist /\ ~Acyclic) => ~(pc = "written"))

\* C29 witness: the script has ended without an exception on A.xsd, which
\* includes d/B.xsd, which includes d/C.xsd, and nothing includes itself.
C29_Witness ==
    /\ pc = "exited"
    /\ outcome = [error |-> None, status |-> "0"]
    /\ AllTargetsExist
    /\ Acyclic
    /\ {FileB, FileC} \subseteq Reached

====
